---- MODULE Spec2Model ----
(***************************************************************************)
(* Model of the Sankey material-flow editor.                               *)
(*                                                                         *)
(*   - processYearData (utils/processData.ts): one data row -> the fixed   *)
(*     10 nodes and the value-weighted links.                              *)
(*   - SankeyDiagram (components/SankeyDiagram.tsx): layout effect, saved  *)
(*     layout, link routing, drag / resize / rotate / link-handle edits.   *)
(*   - App (App.tsx): dataset upload, year selection, saved layout, labels.*)
(*                                                                         *)
(* Numbers.  Flow values are integers in units of 1/KT kilotonne, so that  *)
(* 0.001 kt and 0.25 kt are exact.  Lengths are integers in units of 1/PX  *)
(* pixel; every input is chosen on a grid that keeps the halvings of the   *)
(* code (w/2, lw/2, (edge - total)/2) exact.                               *)
(***************************************************************************)
EXTENDS Integers, Sequences, FiniteSets, TLC

\* ------------------------------------------------------------------ bounds
\* Number of fields a row of the builder specification may hold.
MaxFields == 2
\* Number of editing gestures (node drag/resize/rotate, link-handle drag, node
\* width or flow scale slider, add label) in one run.
MaxEdits == 2

\* ------------------------------------------------------------------- units
KT == 10 * 1000
PX == 8 * 8

Abs(x) == IF x < 0 THEN -x ELSE x
Max(a, b) == IF a >= b THEN a ELSE b
Min(a, b) == IF a <= b THEN a ELSE b
Half(x) == x \div 2

Null == [null |-> TRUE]
IsNull(x) == "null" \in DOMAIN x

\* ============================================================ Graph Builder
\* The nodes array of processYearData, in array order (index 0..9).
NodeIds ==
  << "ore", "concentrate", "metal", "magnet", "other_semi",
     "wind_turbine", "other_final", "loss", "export", "eol" >>

nodeCategory(id) ==
  CASE id = "loss" -> "loss"
    [] id = "export" -> "trade"
    [] id = "eol" -> "end_of_life"
    [] OTHER -> "process"

builderNodes == [i \in 1..Len(NodeIds) |-> [id |-> NodeIds[i], category |-> nodeCategory(NodeIds[i])]]

\* The columns of a row that processYearData reads.
Fields ==
  { "domestic-ore", "trade-concentrate", "export-concentrate", "loss-concentrate",
    "domestic-concentrate", "trade-metal", "export-metal", "loss-metal",
    "domestic-metal", "domestic-other semi-products", "permanent magnets-ex(kt)",
    "trade-permenent magnets", "export-permenent magnets", "loss-permenent magnets",
    "export-other semi-products", "domestic-permenent magnets",
    "domestic-other finalproducts", "trade-wind turbine", "export-wind turbine",
    "export-other finalproducts", "Wind Turbine outflow", "Others outflow",
    "end of life", "end of life to loss" }

\* 0.001 kt: the threshold under which a link is dropped.
Epsilon == KT \div 1000
\* 0.25 kt: the value a force-visible link is raised to.
VisibleFloor == KT \div 4

\* JavaScript truthiness of row[f]: an absent field (undefined) and 0 are falsy.
Truthy(r, f) == f \in DOMAIN r /\ r[f] # 0
\* row[f] || 0
OrZero(r, f) == IF Truthy(r, f) THEN r[f] ELSE 0

\* addLink(source, target, value, type, forceVisible): the links array after the
\* call.  source and target are indices into the nodes array (0-based).
addLinkNoFloor(ls, source, target, value, type, forceVisible) ==
  LET realValue == Abs(value)
      absValue == realValue
  IN IF forceVisible \/ absValue > Epsilon
     THEN Append(ls, [source |-> source, target |-> target, value |-> absValue,
                      realValue |-> realValue, type |-> type])
     ELSE ls

addLinkDropsForced(ls, source, target, value, type, forceVisible) ==
  LET absValue == Abs(value) IN
  IF absValue > Epsilon
  THEN Append(ls, [source |-> source, target |-> target, value |-> absValue,
                   realValue |-> absValue, type |-> type])
  ELSE ls

addLinkInclusive(ls, source, target, value, type, forceVisible) ==
  LET realValue == Abs(value)
      absValue == IF forceVisible /\ realValue < VisibleFloor THEN VisibleFloor ELSE realValue
  IN IF absValue >= Epsilon
     THEN Append(ls, [source |-> source, target |-> target, value |-> absValue,
                      realValue |-> realValue, type |-> type])
     ELSE ls

addLinkSigned(ls, source, target, value, type, forceVisible) ==
  LET realValue == value
      absValue == IF forceVisible /\ Abs(value) < VisibleFloor THEN VisibleFloor ELSE Abs(value)
  IN IF absValue > Epsilon
     THEN Append(ls, [source |-> source, target |-> target, value |-> absValue,
                      realValue |-> realValue, type |-> type])
     ELSE ls

addLink(ls, source, target, value, type, forceVisible) ==
  LET realValue == Abs(value)
      absValue == IF forceVisible /\ realValue < VisibleFloor THEN VisibleFloor ELSE realValue
  IN IF absValue > Epsilon
     THEN Append(ls, [source |-> source, target |-> target, value |-> absValue,
                      realValue |-> realValue, type |-> type])
     ELSE ls

\* The links array of processYearData(row), in the order of its addLink calls.
processYearLinks(r) ==
  LET exportConcentrate == OrZero(r, "trade-concentrate") + OrZero(r, "export-concentrate")
      exportMetal == OrZero(r, "trade-metal") + OrZero(r, "export-metal")
      otherSemiFlow == OrZero(r, "domestic-other semi-products")
      totalMagnetExport == OrZero(r, "permanent magnets-ex(kt)")
                           + OrZero(r, "trade-permenent magnets")
                           + OrZero(r, "export-permenent magnets")
      exportOtherSemi == OrZero(r, "export-other semi-products")
      exportWindTurbine == OrZero(r, "trade-wind turbine") + OrZero(r, "export-wind turbine")
      exportOtherFinal == OrZero(r, "export-other finalproducts")
      eolToLoss == IF Truthy(r, "end of life") THEN r["end of life"]
                   ELSE OrZero(r, "end of life to loss")
      l01 == addLink(<< >>, 0, 1, OrZero(r, "domestic-ore"), "domestic", FALSE)
      l02 == addLink(l01, 1, 8, exportConcentrate, "trade", FALSE)
      l03 == addLink(l02, 1, 7, OrZero(r, "loss-concentrate"), "loss", FALSE)
      l04 == addLink(l03, 1, 2, OrZero(r, "domestic-concentrate"), "domestic", FALSE)
      l05 == addLink(l04, 2, 8, exportMetal, "trade", FALSE)
      l06 == addLink(l05, 2, 7, OrZero(r, "loss-metal"), "loss", FALSE)
      l07 == addLink(l06, 2, 3, OrZero(r, "domestic-metal"), "domestic", FALSE)
      l08 == addLink(l07, 2, 4, otherSemiFlow, "domestic", FALSE)
      l09 == addLink(l08, 3, 8, totalMagnetExport, "trade", FALSE)
      l10 == addLink(l09, 3, 7, OrZero(r, "loss-permenent magnets"), "loss", FALSE)
      l11 == addLink(l10, 4, 8, exportOtherSemi, "trade", FALSE)
      l12 == addLink(l11, 3, 5, OrZero(r, "domestic-permenent magnets"), "domestic", FALSE)
      l13 == addLink(l12, 3, 6, OrZero(r, "domestic-other finalproducts"), "domestic", FALSE)
      l14 == addLink(l13, 4, 6, otherSemiFlow, "domestic", FALSE)
      l15 == addLink(l14, 5, 8, exportWindTurbine, "trade", FALSE)
      l16 == addLink(l15, 6, 8, exportOtherFinal, "trade", FALSE)
      l17 == addLink(l16, 5, 9, OrZero(r, "Wind Turbine outflow"), "domestic", TRUE)
      l18 == addLink(l17, 6, 9, OrZero(r, "Others outflow"), "domestic", TRUE)
  IN addLink(l18, 9, 7, eolToLoss, "loss", TRUE)

processYearData(r) == [nodes |-> builderNodes, links |-> processYearLinks(r)]

\* ======================================================== diagram geometry
\* Canvas size App passes to SankeyDiagram.
width == 1200 * PX
height == 800 * PX

\* Nodes of the working graph are records [x0, x1, y0, y1, isRotated], keyed by
\* node id; isRotated is "undefined" until something sets it.
IdSet == {NodeIds[i] : i \in 1..Len(NodeIds)}
Rect(x0, x1, y0, y1, rot) == [x0 |-> x0, x1 |-> x1, y0 |-> y0, y1 |-> y1, isRotated |-> rot]

\* getLinkKey: "{sourceId}-{targetId}".
getLinkKey(l) == l.source \o "-" \o l.target

getCenter(node) == [x |-> Half(node.x0 + node.x1), y |-> Half(node.y0 + node.y1)]

\* ------------------------------------------------- automatic layout (d3-sankey)
\* effectiveHeight = (height - 10) * flowScale, flowScale in percent.
effectiveHeight(flowScale) == ((height - 10 * PX) * flowScale) \div 100
verticalMargin(flowScale) == Half(height - effectiveHeight(flowScale))

\* d3-sankey is an external library.  What the component reads of its result is
\* modelled: every node is nodeWidth wide, a node's height is its value (the
\* larger of its summed incoming and outgoing link values) times a scale ky, a
\* link's width is its value times ky, and ky grows with the extent's height.
\* The generator's own x0/y0 placement by column is not: the component
\* overwrites it for every node (saved layout or reference layout).
sankeyKy(flowScale) == effectiveHeight(flowScale) \div 79
sankeyLength(value, flowScale) == (value * sankeyKy(flowScale)) \div KT

RECURSIVE SumValues(_, _)
SumValues(ls, S) ==
  IF S = {} THEN 0
  ELSE LET k == CHOOSE j \in S : TRUE IN ls[k].value + SumValues(ls, S \ {k})

\* A node's value: the larger of its summed incoming and outgoing link values.
nodeValue(ls, i) ==
  Max(SumValues(ls, {k \in 1..Len(ls) : ls[k].target = i}),
      SumValues(ls, {k \in 1..Len(ls) : ls[k].source = i}))

\* sankeyGenerator({nodes, links}): link source/target indices resolved to the
\* node objects (here: their ids), nodes and links given their extents.
sankeyGenerator(d, s) ==
  [nodes |-> [id \in IdSet |->
                LET i == (CHOOSE k \in 1..Len(d.nodes) : d.nodes[k].id = id) - 1
                    x0 == PX
                    y0 == verticalMargin(s.flowScale)
                IN Rect(x0, x0 + s.nodeWidth, y0,
                        y0 + sankeyLength(nodeValue(d.links, i), s.flowScale), "undefined")],
   links |-> [k \in 1..Len(d.links) |->
                [source |-> d.nodes[d.links[k].source + 1].id,
                 target |-> d.nodes[d.links[k].target + 1].id,
                 value |-> d.links[k].value,
                 realValue |-> d.links[k].realValue,
                 type |-> d.links[k].type,
                 width |-> sankeyLength(d.links[k].value, s.flowScale)]]]

\* APPLY SAVED NODE LAYOUT: a node with a saved entry takes its rectangle and flag.
applySavedAsOffset(node, id, savedNodes) ==
  IF id \in DOMAIN savedNodes
  THEN Rect(node.x0 + savedNodes[id].x0, node.x1 + savedNodes[id].x0,
            node.y0 + savedNodes[id].y0, node.y1 + savedNodes[id].y0,
            savedNodes[id].isRotated)
  ELSE node

applySavedKeepsHeight(node, id, savedNodes) ==
  IF id \in DOMAIN savedNodes
  THEN Rect(savedNodes[id].x0, savedNodes[id].x1, savedNodes[id].y0,
            savedNodes[id].y0 + (node.y1 - node.y0), savedNodes[id].isRotated)
  ELSE node

applySaved(node, id, savedNodes) ==
  IF id \in DOMAIN savedNodes
  THEN Rect(savedNodes[id].x0, savedNodes[id].x1, savedNodes[id].y0, savedNodes[id].y1,
            savedNodes[id].isRotated)
  ELSE node

\* x0 of the process chain in the reference layout, and its vertical shift.
chainX(id) ==
  CASE id = "ore" -> 50 * PX
    [] id = "concentrate" -> 250 * PX
    [] id = "metal" -> 450 * PX
    [] id \in {"magnet", "other_semi"} -> 650 * PX
    [] id \in {"wind_turbine", "other_final"} -> 900 * PX

chainShift(id) ==
  CASE id \in {"magnet", "wind_turbine"} -> -50 * PX
    [] id = "other_semi" -> 80 * PX
    [] id = "other_final" -> 50 * PX
    [] OTHER -> 0

\* APPLY CUSTOM DEFAULT LAYOUT (Figure S8 style).
applyDefault(node, id) ==
  LET w == node.x1 - node.x0
      h == node.y1 - node.y0
      topBarY == 20 * PX
      topBarHeight == 20 * PX
      bottomBarY == height - 40 * PX
      bottomBarHeight == 20 * PX
      centerY == Half(height)
      halfH == Half(h)
  IN CASE id = "export" ->
            Rect(Half(width), width - 100 * PX, topBarY, topBarY + topBarHeight, "true")
       [] id = "loss" ->
            Rect(100 * PX, width - 100 * PX, bottomBarY, bottomBarY + bottomBarHeight, "true")
       [] id = "eol" ->
            Rect(1050 * PX, 1050 * PX + w, centerY, centerY + h, node.isRotated)
       [] OTHER ->
            Rect(chainX(id), chainX(id) + w,
                 centerY - halfH + chainShift(id), centerY + halfH + chainShift(id),
                 node.isRotated)

\* The layout effect's result: the generated graph with the saved node layout
\* applied when a saved layout exists, the reference layout otherwise.
layoutGraph(d, s, saved) ==
  LET generated == sankeyGenerator(d, s)
  IN [nodes |-> [id \in IdSet |->
                   IF ~IsNull(saved)
                   THEN applySaved(generated.nodes[id], id, saved.nodes)
                   ELSE applyDefault(generated.nodes[id], id)],
      links |-> generated.links]

\* ------------------------------------------------------------------ routing
EmptyRecord == [f \in {} |-> 0]

\* linkOffsets[linkKey], undefined modelled as the record with no field.
savedOffsets(lo, l) == IF getLinkKey(l) \in DOMAIN lo THEN lo[getLinkKey(l)] ELSE EmptyRecord

\* l.width || 1
linkWidth(l) == IF l.width = 0 THEN PX ELSE l.width

sourceSideByTarget(g, lo, l) ==
  LET source == g.linkNodes[l.source]
      target == g.linkNodes[l.target]
      saved == savedOffsets(lo, l)
      targetIsHorizontal == (target.x1 - target.x0) > (target.y1 - target.y0)
      sC == getCenter(source)
      tC == getCenter(target)
  IN IF "sourceSide" \in DOMAIN saved THEN saved.sourceSide
     ELSE IF targetIsHorizontal
          THEN (IF tC.y > sC.y THEN "bottom" ELSE "top")
          ELSE (IF tC.x > sC.x THEN "right" ELSE "left")

\* 1. Determine sides.  g.linkNodes are the node objects l.source / l.target
\* point to.
sourceSide(g, lo, l) ==
  LET source == g.linkNodes[l.source]
      target == g.linkNodes[l.target]
      saved == savedOffsets(lo, l)
      sourceIsHorizontal == (source.x1 - source.x0) > (source.y1 - source.y0)
      sC == getCenter(source)
      tC == getCenter(target)
  IN IF "sourceSide" \in DOMAIN saved THEN saved.sourceSide
     ELSE IF sourceIsHorizontal
          THEN (IF tC.y > sC.y THEN "bottom" ELSE "top")
          ELSE (IF tC.x > sC.x THEN "right" ELSE "left")

targetSide(g, lo, l) ==
  LET source == g.linkNodes[l.source]
      target == g.linkNodes[l.target]
      saved == savedOffsets(lo, l)
      targetIsHorizontal == (target.x1 - target.x0) > (target.y1 - target.y0)
      sC == getCenter(source)
      tC == getCenter(target)
  IN IF "targetSide" \in DOMAIN saved THEN saved.targetSide
     ELSE IF targetIsHorizontal
          THEN (IF sC.y > tC.y THEN "bottom" ELSE "top")
          ELSE (IF sC.x > tC.x THEN "right" ELSE "left")

\* The side of link l at one of its ends (incoming: its target end).
endSide(g, lo, l, incoming) == IF incoming THEN targetSide(g, lo, l) ELSE sourceSide(g, lo, l)
endNodeId(l, incoming) == IF incoming THEN l.target ELSE l.source

\* nodeBuckets.get(i)[side]: the links (indices into g.links) attached to node n
\* on that side, outgoing ('top', ...) or incoming ('inTop', ...).
bucket(g, lo, n, incoming, side) ==
  {k \in 1..Len(g.links) :
     endNodeId(g.links[k], incoming) = n /\ endSide(g, lo, g.links[k], incoming) = side}

isHorizontalEdge(side) == side \in {"top", "bottom"}

\* Default sort: the centre of the link's other node, x for a horizontal edge,
\* y for a vertical one.
sortKey(g, l, incoming, side) ==
  LET c == getCenter(g.linkNodes[IF incoming THEN l.source ELSE l.target])
  IN IF isHorizontalEdge(side) THEN c.x ELSE c.y

sortsBeforeDescending(g, j, k, incoming, side) ==
  LET kj == sortKey(g, g.links[j], incoming, side)
      kk == sortKey(g, g.links[k], incoming, side)
  IN kj > kk \/ (kj = kk /\ j < k)

\* Link j comes before link k in the sorted bucket (the sort is stable, the
\* bucket was filled in the order of g.links).
sortsBefore(g, j, k, incoming, side) ==
  LET kj == sortKey(g, g.links[j], incoming, side)
      kk == sortKey(g, g.links[k], incoming, side)
  IN kj < kk \/ (kj = kk /\ j < k)

RECURSIVE SumWidths(_, _)
SumWidths(ls, S) ==
  IF S = {} THEN 0
  ELSE LET k == CHOOSE j \in S : TRUE IN linkWidth(ls[k]) + SumWidths(ls, S \ {k})

edgeLength(node, side) ==
  IF isHorizontalEdge(side) THEN node.x1 - node.x0 ELSE node.y1 - node.y0

currentPosSkipsRouted(g, lo, k, incoming) ==
  LET l == g.links[k]
      n == endNodeId(l, incoming)
      side == endSide(g, lo, l, incoming)
      B == bucket(g, lo, n, incoming, side)
      totalValue == SumWidths(g.links, B)
  IN Max(0, Half(edgeLength(g.nodes[n], side) - totalValue))
     + SumWidths(g.links, {j \in B : /\ sortsBefore(g, j, k, incoming, side)
                                     /\ "sourceCoords" \notin DOMAIN g.links[j]})

currentPosNoAdvance(g, lo, k, incoming) ==
  LET l == g.links[k]
      n == endNodeId(l, incoming)
      side == endSide(g, lo, l, incoming)
      B == bucket(g, lo, n, incoming, side)
      totalValue == SumWidths(g.links, B)
  IN Max(0, Half(edgeLength(g.nodes[n], side) - totalValue))

\* currentPos when the loop of getCoords reaches link k.
currentPos(g, lo, k, incoming) ==
  LET l == g.links[k]
      n == endNodeId(l, incoming)
      side == endSide(g, lo, l, incoming)
      B == bucket(g, lo, n, incoming, side)
      totalValue == SumWidths(g.links, B)
  IN Max(0, Half(edgeLength(g.nodes[n], side) - totalValue))
     + SumWidths(g.links, {j \in B : sortsBefore(g, j, k, incoming, side)})

hasManualPos(lo, l, incoming) ==
  (IF incoming THEN "targetOffset" ELSE "sourceOffset") \in DOMAIN savedOffsets(lo, l)

manualPos(lo, l, incoming) ==
  IF incoming THEN savedOffsets(lo, l).targetOffset ELSE savedOffsets(lo, l).sourceOffset

\* Math.max(0, Math.min(posOnEdge, edgeLength - lw))
clampPos(pos, len, lw) == Max(0, Min(pos, len - lw))

posOnEdgeNotCentred(g, lo, k, incoming) ==
  LET l == g.links[k]
      lw == linkWidth(l)
      node == g.nodes[endNodeId(l, incoming)]
      side == endSide(g, lo, l, incoming)
      pos == IF hasManualPos(lo, l, incoming)
             THEN manualPos(lo, l, incoming)
             ELSE currentPos(g, lo, k, incoming)
  IN clampPos(pos, edgeLength(node, side), lw)

\* posOnEdge of link k at one end: where its width starts along the edge.
posOnEdge(g, lo, k, incoming) ==
  LET l == g.links[k]
      lw == linkWidth(l)
      node == g.nodes[endNodeId(l, incoming)]
      side == endSide(g, lo, l, incoming)
      pos == IF hasManualPos(lo, l, incoming)
             THEN manualPos(lo, l, incoming) - Half(lw)
             ELSE currentPos(g, lo, k, incoming)
  IN clampPos(pos, edgeLength(node, side), lw)

\* 2. Compute coordinates: the point of link k on its node's edge.
getCoords(g, lo, k, incoming) ==
  LET l == g.links[k]
      node == g.nodes[endNodeId(l, incoming)]
      side == endSide(g, lo, l, incoming)
      mid == posOnEdge(g, lo, k, incoming) + Half(linkWidth(l))
  IN CASE side = "right" -> [x |-> node.x1, y |-> node.y0 + mid, side |-> side]
       [] side = "left" -> [x |-> node.x0, y |-> node.y0 + mid, side |-> side]
       [] side = "bottom" -> [x |-> node.x0 + mid, y |-> node.y1, side |-> side]
       [] side = "top" -> [x |-> node.x0 + mid, y |-> node.y0, side |-> side]

\* routedGraph: sourceCoords and targetCoords of every link.
routedGraph(g, lo) ==
  [k \in 1..Len(g.links) |->
     [sourceCoords |-> getCoords(g, lo, k, FALSE), targetCoords |-> getCoords(g, lo, k, TRUE)]]

\* ================================================================== state
VARIABLES
  row,           \* builder specification: the input row (field -> value)
  built,         \* builder specification: processYearData(row), or Null before the call
  data,          \* App: the rows of the loaded sheet, by year (empty before an upload)
  selectedYear,  \* App: the selected year, 0 for null
  savedLayout,   \* App: the saved layout [nodes, links], or Null
  customLabels,  \* App: the custom labels
  settings,      \* App: [nodeWidth, flowScale] (flowScale in percent)
  graph,         \* SankeyDiagram: the working graph [nodes, links, linkNodes, shared], or Null
  linkOffsets,   \* SankeyDiagram: manual link adjustments, by link key
  edits          \* number of editing gestures made so far

vars == << row, built, data, selectedYear, savedLayout, customLabels, settings,
           graph, linkOffsets, edits >>

buildVars == << row, built >>
appVars == << data, selectedYear, savedLayout, customLabels, settings, graph,
              linkOffsets, edits >>

\* -------------------------------------------------- the builder specification
\* Values a field is given: negative, zero, at and around the 0.001 kt
\* threshold, the 0.25 kt floor, and 100 kt.
FieldValues == { -(Epsilon + 1), 0, Epsilon, Epsilon + 1, VisibleFloor, 100 * KT }

EmptyRow == [f \in {} |-> 0]

InitApp ==
  /\ data = EmptyRecord
  /\ selectedYear = 0
  /\ savedLayout = Null
  /\ customLabels = << >>
  /\ settings = [nodeWidth |-> 25 * PX, flowScale |-> 90]
  /\ graph = Null
  /\ linkOffsets = EmptyRecord
  /\ edits = 0

InitBuild ==
  /\ row = EmptyRow
  /\ built = Null
  /\ InitApp

\* One more column of the sheet holds a number.
SetField(f, v) ==
  /\ IsNull(built)
  /\ f \notin DOMAIN row
  /\ Cardinality(DOMAIN row) < MaxFields
  /\ row' = [g \in DOMAIN row \cup {f} |-> IF g = f THEN v ELSE row[g]]
  /\ UNCHANGED built
  /\ UNCHANGED appVars

\* processedGraphData: the builder is applied to the row.
Build ==
  /\ IsNull(built)
  /\ built' = processYearData(row)
  /\ UNCHANGED row
  /\ UNCHANGED appVars

NextBuild ==
  \/ \E f \in Fields, v \in FieldValues : SetField(f, v)
  \/ Build

SpecBuild == InitBuild /\ [][NextBuild]_vars

\* ---------------------------------------------------- the editor specification
\* The sheets that are uploaded: rows by year, values in kt.
Sheet1 ==
  2020 :> [f \in {"domestic-ore", "domestic-concentrate", "loss-concentrate",
                  "trade-concentrate", "domestic-metal", "loss-metal"} |->
             CASE f = "domestic-ore" -> 20 * KT
               [] f = "domestic-concentrate" -> 12 * KT
               [] f = "domestic-metal" -> 8 * KT
               [] OTHER -> 4 * KT]
  @@
  2021 :> [f \in {"domestic-ore", "domestic-concentrate", "trade-concentrate"} |->
             CASE f = "domestic-ore" -> 40 * KT
               [] f = "domestic-concentrate" -> 2 * KT
               [] OTHER -> 6 * KT]
  @@
  2022 :> [f \in {"domestic-ore", "domestic-concentrate"} |->
             CASE f = "domestic-ore" -> 30 * KT
               [] OTHER -> 1 * KT]

Sheet2 ==
  2020 :> [f \in {"domestic-ore", "Wind Turbine outflow", "export-other finalproducts"} |->
             CASE f = "domestic-ore" -> 2 * KT
               [] OTHER -> 3 * KT]

Sheets == {Sheet1, Sheet2}
NodeWidths == {25 * PX, 40 * PX}
FlowScales == {90, 45}

\* The nodes and link handles the pointer acts on, and where it goes.
EditNodes == {"concentrate"}
DragNodes == {"loss"}
RotateNodes == {"loss"}
DragDeltas == { << 40 * PX, -24 * PX >>, << -2000 * PX, 2000 * PX >> }
\* pointer of a resize, relative to the node's top-left corner
ResizePointers == { << 4 * PX, 4 * PX >>, << 2000 * PX, 2000 * PX >> }
HandleKeys == {"concentrate-metal", "other_final-export"}
\* pointer of a link-handle drag, relative to the top-left corner of the node
\* the handler reads
HandlePointers == { << 30 * PX, 15 * PX >>, << -8 * PX, -8 * PX >> }

MinYear(d) == CHOOSE y \in DOMAIN d : \A z \in DOMAIN d : y <= z

\* processedGraphData (useMemo on [data, selectedYear])
processedGraphData(d, year) ==
  IF year = 0 \/ DOMAIN d = {} \/ year \notin DOMAIN d
  THEN [nodes |-> << >>, links |-> << >>]
  ELSE processYearData(d[year])

\* The layout effect (deps [data, settings.flowScale]): the new working graph,
\* or the old one when there are no nodes.  The links of a fresh graph point
\* to the graph's own node objects.
layoutEffect(old, d, year, s, saved) ==
  LET pg == processedGraphData(d, year)
  IN IF Len(pg.nodes) = 0 THEN old
     ELSE LET g == layoutGraph(pg, s, saved)
          IN [nodes |-> g.nodes, links |-> g.links, linkNodes |-> g.nodes, shared |-> TRUE]

UploadClearsLayout(sheet) ==
  /\ data' = sheet
  /\ selectedYear' = MinYear(sheet)
  /\ customLabels' = << >>
  /\ savedLayout' = Null
  /\ graph' = layoutEffect(graph, data', selectedYear', settings, savedLayout')
  /\ UNCHANGED << settings, linkOffsets, edits >>

\* handleFileUpload, a sheet that parses: the rows, the first year, no labels;
\* then the layout effect runs on the new data.
Upload(sheet) ==
  /\ data' = sheet
  /\ selectedYear' = MinYear(sheet)
  /\ customLabels' = << >>
  /\ graph' = layoutEffect(graph, data', selectedYear', settings, savedLayout)
  /\ UNCHANGED << savedLayout, settings, linkOffsets, edits >>

\* onYearChange: another year of the loaded sheet; the layout effect runs.
SelectYear(y) ==
  /\ y \in DOMAIN data
  /\ y # selectedYear
  /\ selectedYear' = y
  /\ graph' = layoutEffect(graph, data, y, settings, savedLayout)
  /\ UNCHANGED << data, savedLayout, customLabels, settings, linkOffsets, edits >>

\* isRotated || false
rotatedOrFalse(node) == IF node.isRotated = "true" THEN "true" ELSE "false"

\* nodesMap of handleSaveClick
saveNodes(g) ==
  [id \in DOMAIN g.nodes |->
     Rect(g.nodes[id].x0, g.nodes[id].x1, g.nodes[id].y0, g.nodes[id].y1,
          rotatedOrFalse(g.nodes[id]))]

\* handleSaveClick -> handleSaveLayout; then the seeding effect (deps
\* [savedLayout]) sets linkOffsets to the saved links.
Save ==
  /\ ~IsNull(graph)
  /\ savedLayout' = [nodes |-> saveNodes(graph), links |-> linkOffsets]
  /\ linkOffsets' = savedLayout'.links
  /\ UNCHANGED << data, selectedYear, customLabels, settings, graph, edits >>

\* The live-update effect (deps [settings.nodeWidth]): every node is copied with
\* x1 moved so that it is nodeWidth wide; the links keep pointing to the old
\* node objects.
liveUpdate(g, nodeWidth) ==
  IF IsNull(g) THEN g
  ELSE [g EXCEPT !.nodes = [id \in DOMAIN g.nodes |->
                              [g.nodes[id] EXCEPT !.x1 = @ + (nodeWidth - (@ - g.nodes[id].x0))]],
                 !.shared = FALSE]

ChangeNodeWidth(w) ==
  /\ w # settings.nodeWidth
  /\ edits < MaxEdits
  /\ edits' = edits + 1
  /\ settings' = [settings EXCEPT !.nodeWidth = w]
  /\ graph' = liveUpdate(graph, w)
  /\ UNCHANGED << data, selectedYear, savedLayout, customLabels, linkOffsets >>

ChangeFlowScale(f) ==
  /\ f # settings.flowScale
  /\ edits < MaxEdits
  /\ edits' = edits + 1
  /\ settings' = [settings EXCEPT !.flowScale = f]
  /\ graph' = layoutEffect(graph, data, selectedYear, settings', savedLayout)
  /\ UNCHANGED << data, selectedYear, savedLayout, customLabels, linkOffsets >>

\* A handler wrote node n of graph.nodes: the links see it when they still
\* point to the same objects.
writeNode(g, n, node) ==
  [g EXCEPT !.nodes[n] = node,
            !.linkNodes[n] = IF g.shared THEN node ELSE @]

draggedNodeUnclamped(d, dx, dy) ==
  LET w == d.x1 - d.x0
      h == d.y1 - d.y0
      newX == d.x0 + dx
      newY == d.y0 + dy
  IN [d EXCEPT !.x0 = newX, !.x1 = newX + w, !.y0 = newY, !.y1 = newY + h]

\* dragNode "drag"
draggedNode(d, dx, dy) ==
  LET w == d.x1 - d.x0
      h == d.y1 - d.y0
      newX == Max(0, Min(width - w, d.x0 + dx))
      newY == Max(0, Min(height - h, d.y0 + dy))
  IN [d EXCEPT !.x0 = newX, !.x1 = newX + w, !.y0 = newY, !.y1 = newY + h]

DragNode(n, delta) ==
  /\ ~IsNull(graph)
  /\ edits < MaxEdits
  /\ graph' = writeNode(graph, n, draggedNode(graph.nodes[n], delta[1], delta[2]))
  /\ edits' = edits + 1
  /\ UNCHANGED << data, selectedYear, savedLayout, customLabels, settings, linkOffsets >>

resizedNodeNoMin(d, px, py) ==
  LET mouseX == Max(0, Min(width, px))
      mouseY == Max(0, Min(height, py))
  IN [d EXCEPT !.x1 = mouseX, !.y1 = mouseY]

\* dragResize "drag": px, py is the pointer
resizedNode(d, px, py) ==
  LET mouseX == Max(0, Min(width, px))
      mouseY == Max(0, Min(height, py))
      newW == Max(10 * PX, mouseX - d.x0)
      newH == Max(10 * PX, mouseY - d.y0)
  IN [d EXCEPT !.x1 = d.x0 + newW, !.y1 = d.y0 + newH]

DragResize(n, p) ==
  /\ ~IsNull(graph)
  /\ edits < MaxEdits
  /\ graph' = writeNode(graph, n,
                resizedNode(graph.nodes[n], graph.nodes[n].x0 + p[1], graph.nodes[n].y0 + p[2]))
  /\ edits' = edits + 1
  /\ UNCHANGED << data, selectedYear, savedLayout, customLabels, settings, linkOffsets >>

rotatedNodeAboutCorner(d) ==
  LET w == d.x1 - d.x0
      h == d.y1 - d.y0
  IN Rect(d.x0, d.x0 + h, d.y0, d.y0 + w,
          IF d.isRotated = "true" THEN "false" ELSE "true")

\* rect "contextmenu"
rotatedNode(d) ==
  LET w == d.x1 - d.x0
      h == d.y1 - d.y0
      cx == d.x0 + Half(w)
      cy == d.y0 + Half(h)
      newW == h
      newH == w
  IN Rect(cx - Half(newW), cx + Half(newW), cy - Half(newH), cy + Half(newH),
          IF d.isRotated = "true" THEN "false" ELSE "true")

Rotate(n) ==
  /\ ~IsNull(graph)
  /\ edits < MaxEdits
  /\ graph' = writeNode(graph, n, rotatedNode(graph.nodes[n]))
  /\ edits' = edits + 1
  /\ UNCHANGED << data, selectedYear, savedLayout, customLabels, settings, linkOffsets >>

\* dragLinkHandle "drag": the new side and offset of one end of link l, from
\* the pointer and the node object the link points to.
handleSide(node, mouseX, mouseY) ==
  LET nodeW == node.x1 - node.x0
      nodeH == node.y1 - node.y0
      isVertical == nodeH > nodeW
      centerX == node.x0 + Half(nodeW)
      centerY == node.y0 + Half(nodeH)
  IN IF isVertical
     THEN (IF mouseX < centerX THEN "left" ELSE "right")
     ELSE (IF mouseY < centerY THEN "top" ELSE "bottom")

handleOffset(node, mouseX, mouseY) ==
  IF handleSide(node, mouseX, mouseY) \in {"top", "bottom"}
  THEN Max(0, Min(mouseX - node.x0, node.x1 - node.x0))
  ELSE Max(0, Min(mouseY - node.y0, node.y1 - node.y0))

withOffsetReplacesEntry(lo, key, isSource, newOffset, newSide) ==
  LET fOffset == IF isSource THEN "sourceOffset" ELSE "targetOffset"
      fSide == IF isSource THEN "sourceSide" ELSE "targetSide"
      entry == [f \in {fOffset, fSide} |-> IF f = fOffset THEN newOffset ELSE newSide]
  IN [k \in DOMAIN lo \cup {key} |-> IF k = key THEN entry ELSE lo[k]]

\* { ...prev, [linkKey]: { ...prev[linkKey], [..Offset]: newOffset, [..Side]: newSide } }
withOffset(lo, key, isSource, newOffset, newSide) ==
  LET old == IF key \in DOMAIN lo THEN lo[key] ELSE EmptyRecord
      fOffset == IF isSource THEN "sourceOffset" ELSE "targetOffset"
      fSide == IF isSource THEN "sourceSide" ELSE "targetSide"
      entry == [f \in DOMAIN old \cup {fOffset, fSide} |->
                  IF f = fOffset THEN newOffset
                  ELSE IF f = fSide THEN newSide
                  ELSE old[f]]
  IN [k \in DOMAIN lo \cup {key} |-> IF k = key THEN entry ELSE lo[k]]

DragLinkHandleInPlace(k, isSource, p) ==
  /\ ~IsNull(graph)
  /\ edits < MaxEdits
  /\ k \in 1..Len(graph.links)
  /\ getLinkKey(graph.links[k]) \in HandleKeys
  /\ LET l == graph.links[k]
         node == graph.linkNodes[IF isSource THEN l.source ELSE l.target]
         mouseX == node.x0 + p[1]
         mouseY == node.y0 + p[2]
     IN linkOffsets' = withOffset(linkOffsets, getLinkKey(l), isSource,
                                  handleOffset(node, mouseX, mouseY),
                                  handleSide(node, mouseX, mouseY))
  /\ savedLayout' = IF IsNull(savedLayout) THEN savedLayout
                    ELSE [savedLayout EXCEPT !.links = linkOffsets']
  /\ edits' = edits + 1
  /\ UNCHANGED << data, selectedYear, customLabels, settings, graph >>

DragLinkHandle(k, isSource, p) ==
  /\ ~IsNull(graph)
  /\ edits < MaxEdits
  /\ k \in 1..Len(graph.links)
  /\ getLinkKey(graph.links[k]) \in HandleKeys
  /\ LET l == graph.links[k]
         node == graph.linkNodes[IF isSource THEN l.source ELSE l.target]
         mouseX == node.x0 + p[1]
         mouseY == node.y0 + p[2]
     IN linkOffsets' = withOffset(linkOffsets, getLinkKey(l), isSource,
                                  handleOffset(node, mouseX, mouseY),
                                  handleSide(node, mouseX, mouseY))
  /\ edits' = edits + 1
  /\ UNCHANGED << data, selectedYear, savedLayout, customLabels, settings, graph >>

\* handleAddText.  The id is Date.now(); the count of gestures stands for the
\* clock, so ids of labels added one after the other differ.
AddText ==
  /\ edits < MaxEdits
  /\ edits' = edits + 1
  /\ customLabels' = Append(customLabels,
                       [id |-> edits + 1, text |-> "New Label", x |-> 550 * PX, y |-> 350 * PX])
  /\ UNCHANGED << data, selectedYear, savedLayout, settings, graph, linkOffsets >>

\* Texts typed into the edit prompt, and pointer positions of a label drag.
PromptTexts == {"Edited"}
LabelPointers == { << -8 * PX, 2000 * PX >> }

HasLabel(labels, id) == \E i \in 1..Len(labels) : labels[i].id = id

\* text "dblclick": prompt() gives the new text, or null when cancelled
\* (answered = FALSE).
editedLabels(labels, id, answered, newText) ==
  IF answered
  THEN [i \in 1..Len(labels) |->
          IF labels[i].id = id THEN [labels[i] EXCEPT !.text = newText] ELSE labels[i]]
  ELSE labels

EditLabel(id, answered, newText) ==
  /\ HasLabel(customLabels, id)
  /\ edits < MaxEdits
  /\ edits' = edits + 1
  /\ customLabels' = editedLabels(customLabels, id, answered, newText)
  /\ UNCHANGED << data, selectedYear, savedLayout, settings, graph, linkOffsets >>

\* labelDrag "drag" and "end": the pointer, clamped to the canvas, becomes the
\* label's position.
draggedLabels(labels, id, px, py) ==
  [i \in 1..Len(labels) |->
     IF labels[i].id = id
     THEN [labels[i] EXCEPT !.x = Max(0, Min(width, px)), !.y = Max(0, Min(height, py))]
     ELSE labels[i]]

DragLabel(id, p) ==
  /\ HasLabel(customLabels, id)
  /\ edits < MaxEdits
  /\ edits' = edits + 1
  /\ customLabels' = draggedLabels(customLabels, id, p[1], p[2])
  /\ UNCHANGED << data, selectedYear, savedLayout, settings, graph, linkOffsets >>

\* labels "contextmenu": confirm("Delete this label?")
deletedLabelsUnasked(labels, id, confirmed) ==
  SelectSeq(labels, LAMBDA l : l.id # id)

deletedLabels(labels, id, confirmed) ==
  IF confirmed THEN SelectSeq(labels, LAMBDA l : l.id # id) ELSE labels

DeleteLabel(id, confirmed) ==
  /\ HasLabel(customLabels, id)
  /\ edits < MaxEdits
  /\ edits' = edits + 1
  /\ customLabels' = deletedLabels(customLabels, id, confirmed)
  /\ UNCHANGED << data, selectedYear, savedLayout, settings, graph, linkOffsets >>

Init ==
  /\ InitApp
  /\ row = EmptyRow
  /\ built = Null

Next ==
  \/ /\ UNCHANGED buildVars
     /\ \/ \E sheet \in Sheets : Upload(sheet)
        \/ \E y \in DOMAIN data : SelectYear(y)
        \/ Save
        \/ \E w \in NodeWidths : ChangeNodeWidth(w)
        \/ \E f \in FlowScales : ChangeFlowScale(f)
        \/ \E n \in DragNodes, delta \in DragDeltas : DragNode(n, delta)
        \/ \E n \in EditNodes, p \in ResizePointers : DragResize(n, p)
        \/ \E n \in RotateNodes : Rotate(n)
        \/ \E k \in 1..20, isSource \in BOOLEAN, p \in HandlePointers :
             DragLinkHandle(k, isSource, p)
        \/ AddText
        \/ \E id \in 1..MaxEdits, answered \in BOOLEAN, t \in PromptTexts :
             EditLabel(id, answered, t)
        \/ \E id \in 1..MaxEdits, p \in LabelPointers : DragLabel(id, p)
        \/ \E id \in 1..MaxEdits, confirmed \in BOOLEAN : DeleteLabel(id, confirmed)

Spec == Init /\ [][Next]_vars

\* ----------------------------------------- the layout call inside try / catch
\* sankeyGenerator is a library call made inside a try block; the catch block
\* logs and returns, so setGraph is not reached and the working graph stays the
\* one from before.  The specification below lets the call throw.
layoutThrowsClears(old) == Null

layoutThrows(old) == old

UploadThrows(sheet) ==
  /\ data' = sheet
  /\ selectedYear' = MinYear(sheet)
  /\ customLabels' = << >>
  /\ graph' = layoutThrows(graph)
  /\ UNCHANGED << savedLayout, settings, linkOffsets, edits >>

SelectYearThrows(y) ==
  /\ y \in DOMAIN data
  /\ y # selectedYear
  /\ selectedYear' = y
  /\ graph' = layoutThrows(graph)
  /\ UNCHANGED << data, savedLayout, customLabels, settings, linkOffsets, edits >>

ChangeFlowScaleThrows(f) ==
  /\ f # settings.flowScale
  /\ edits < MaxEdits
  /\ edits' = edits + 1
  /\ settings' = [settings EXCEPT !.flowScale = f]
  /\ graph' = layoutThrows(graph)
  /\ UNCHANGED << data, selectedYear, savedLayout, customLabels, linkOffsets >>

NextThrow ==
  \/ Next
  \/ /\ UNCHANGED buildVars
     /\ \/ \E sheet \in Sheets : UploadThrows(sheet)
        \/ \E y \in DOMAIN data : SelectYearThrows(y)
        \/ \E f \in FlowScales : ChangeFlowScaleThrows(f)

SpecThrow == Init /\ [][NextThrow]_vars

\* ------------------------------------------- the savedLayout prop, in general
\* SankeyDiagram takes savedLayout as a prop of type SavedLayoutMap | null,
\* whose nodes map is a Record keyed by node id that need not hold every id;
\* the layout effect tests each node's entry (if (saved)).  App only ever
\* passes what handleSaveClick produced, which has all ten ids.  The
\* specification below drives the component with a saved layout that lacks the
\* entry of 'ore'.  For 'ore', d3-sankey's own placement is known: a node
\* without incoming links is in the first column, at the extent's left border
\* x0 = 1, which is what sankeyGenerator above gives.
referenceNodes ==
  [id \in IdSet |-> applyDefault(Rect(0, 25 * PX, 0, 40 * PX, "undefined"), id)]

SavedProps ==
  { [nodes |-> [id \in IdSet \ {"ore"} |-> saveNodes([nodes |-> referenceNodes])[id]],
     links |-> EmptyRecord] }

\* The parent passes another savedLayout; the seeding effect (deps
\* [savedLayout]) copies its links into linkOffsets.  The layout effect does
\* not run.
PassSavedLayout(s) ==
  /\ savedLayout' = s
  /\ linkOffsets' = s.links
  /\ UNCHANGED << data, selectedYear, customLabels, settings, graph, edits >>

NextProps ==
  /\ UNCHANGED buildVars
  /\ \/ \E s \in SavedProps : PassSavedLayout(s)
     \/ \E sheet \in Sheets : Upload(sheet)
     \/ \E y \in DOMAIN data : SelectYear(y)
     \/ \E f \in FlowScales : ChangeFlowScale(f)
     \/ \E w \in NodeWidths : ChangeNodeWidth(w)
     \/ Save

SpecProps == Init /\ [][NextProps]_vars

\* The working graph's routed links (useMemo on [graph, linkOffsets]).
routed == routedGraph(graph, linkOffsets)

\* ===================================================== claims: Graph Builder
builtLinks == built.links

\* Number of links of the built graph from node index s to node index t.
LinkCount(s, t) ==
  Cardinality({i \in 1..Len(builtLinks) : builtLinks[i].source = s /\ builtLinks[i].target = t})

TheLink(s, t) ==
  builtLinks[CHOOSE i \in 1..Len(builtLinks) : builtLinks[i].source = s /\ builtLinks[i].target = t]

\* The value a row gives a column, an absent column counting as 0.
Col(f) == IF f \in DOMAIN row THEN row[f] ELSE 0

\* The true magnitude of the end-of-life -> loss flow: the first of the two
\* columns that holds a non-zero number.
EolToLossMagnitude ==
  Abs(IF Col("end of life") # 0 THEN Col("end of life") ELSE Col("end of life to loss"))

\* The force-visible transitions with their true magnitudes.
ForcedFlows ==
  { << 5, 9, Abs(Col("Wind Turbine outflow")) >>,
    << 6, 9, Abs(Col("Others outflow")) >>,
    << 9, 7, EolToLossMagnitude >> }

\* Every other transition with its true magnitude.
PlainFlows ==
  { << 0, 1, Abs(Col("domestic-ore")) >>,
    << 1, 8, Abs(Col("trade-concentrate") + Col("export-concentrate")) >>,
    << 1, 7, Abs(Col("loss-concentrate")) >>,
    << 1, 2, Abs(Col("domestic-concentrate")) >>,
    << 2, 8, Abs(Col("trade-metal") + Col("export-metal")) >>,
    << 2, 7, Abs(Col("loss-metal")) >>,
    << 2, 3, Abs(Col("domestic-metal")) >>,
    << 2, 4, Abs(Col("domestic-other semi-products")) >>,
    << 3, 8, Abs(Col("permanent magnets-ex(kt)") + Col("trade-permenent magnets")
                 + Col("export-permenent magnets")) >>,
    << 3, 7, Abs(Col("loss-permenent magnets")) >>,
    << 4, 8, Abs(Col("export-other semi-products")) >>,
    << 3, 5, Abs(Col("domestic-permenent magnets")) >>,
    << 3, 6, Abs(Col("domestic-other finalproducts")) >>,
    << 4, 6, Abs(Col("domestic-other semi-products")) >>,
    << 5, 8, Abs(Col("trade-wind turbine") + Col("export-wind turbine")) >>,
    << 6, 8, Abs(Col("export-other finalproducts")) >> }

\* C5: each of the three force-visible transitions is in the built graph exactly
\* once, with value = max(true magnitude, 0.25 kt) and realValue = the true
\* magnitude, whatever the row.
C5_ForceVisibleFloor ==
  ~IsNull(built) =>
    \A e \in ForcedFlows :
      /\ LinkCount(e[1], e[2]) = 1
      /\ TheLink(e[1], e[2]).realValue = e[3]
      /\ TheLink(e[1], e[2]).value = Max(e[3], VisibleFloor)
      /\ TheLink(e[1], e[2]).value >= VisibleFloor

\* A row whose 'Wind Turbine outflow' is 0 was built: wind_turbine -> eol is
\* there with value 0.25 kt and realValue 0.
C5_Witness ==
  /\ ~IsNull(built)
  /\ "Wind Turbine outflow" \in DOMAIN row
  /\ row["Wind Turbine outflow"] = 0
  /\ LinkCount(5, 9) = 1
  /\ TheLink(5, 9).value = VisibleFloor
  /\ TheLink(5, 9).realValue = 0

\* C6: a transition that is not force-visible is absent from the built graph when
\* its true magnitude is <= 0.001 kt, and present exactly once, with
\* value = realValue = magnitude, when it is above.
C6_EpsilonFilter ==
  ~IsNull(built) =>
    \A e \in PlainFlows :
      IF e[3] <= Epsilon
      THEN LinkCount(e[1], e[2]) = 0
      ELSE /\ LinkCount(e[1], e[2]) = 1
           /\ TheLink(e[1], e[2]).value = e[3]
           /\ TheLink(e[1], e[2]).realValue = e[3]

\* A row with one column exactly at the threshold (dropped) and one just above
\* it (kept) was built.
C6_Witness ==
  /\ ~IsNull(built)
  /\ Col("domestic-ore") = Epsilon
  /\ LinkCount(0, 1) = 0
  /\ Col("loss-metal") = -(Epsilon + 1)
  /\ LinkCount(2, 7) = 1

ScenarioRow == "domestic-ore" :> 100 * KT

\* C7 as stated: the row {'domestic-ore': 100} builds exactly one link,
\* ore -> concentrate with realValue 100 kt.
C7_SingleLinkOnly ==
  (~IsNull(built) /\ row = ScenarioRow) =>
    /\ Len(builtLinks) = 1
    /\ builtLinks[1].source = 0 /\ builtLinks[1].target = 1
    /\ builtLinks[1].realValue = 100 * KT

\* C7 amended: the row {'domestic-ore': 100} builds the domestic link
\* ore -> concentrate with realValue 100 kt, which is the only link with a
\* non-zero realValue, and the three force-visible links with value 0.25 kt and
\* realValue 0; nothing else.
C7_SingleRealLink ==
  (~IsNull(built) /\ row = ScenarioRow) =>
    builtLinks =
      << [source |-> 0, target |-> 1, value |-> 100 * KT, realValue |-> 100 * KT, type |-> "domestic"],
         [source |-> 5, target |-> 9, value |-> VisibleFloor, realValue |-> 0, type |-> "domestic"],
         [source |-> 6, target |-> 9, value |-> VisibleFloor, realValue |-> 0, type |-> "domestic"],
         [source |-> 9, target |-> 7, value |-> VisibleFloor, realValue |-> 0, type |-> "loss"] >>

\* The row {'domestic-ore': 100} was built, into four links.
C7_Witness ==
  /\ ~IsNull(built)
  /\ row = ScenarioRow
  /\ Len(builtLinks) = 4

FixedIds ==
  { "ore", "concentrate", "metal", "magnet", "other_semi",
    "wind_turbine", "other_final", "loss", "export", "eol" }

\* C8: whatever the row (missing, zero or negative columns included) the built
\* graph holds exactly the fixed 10 nodes, one per id, and every link has
\* realValue >= 0.
C8_TenNodesNonNegative ==
  ~IsNull(built) =>
    /\ Len(built.nodes) = 10
    /\ {built.nodes[i].id : i \in 1..Len(built.nodes)} = FixedIds
    /\ \A i \in 1..Len(builtLinks) : builtLinks[i].realValue >= 0

\* A row with a negative column and an absent column was built, and the
\* negative column's link is there.
C8_Witness ==
  /\ ~IsNull(built)
  /\ Col("domestic-ore") < 0
  /\ "domestic-metal" \notin DOMAIN row
  /\ LinkCount(0, 1) = 1
  /\ Len(built.nodes) = 10

\* The stages with several export columns: source index and the columns.
CombinedExports ==
  { << 1, {"trade-concentrate", "export-concentrate"} >>,
    << 2, {"trade-metal", "export-metal"} >>,
    << 3, {"permanent magnets-ex(kt)", "trade-permenent magnets", "export-permenent magnets"} >>,
    << 5, {"trade-wind turbine", "export-wind turbine"} >> }

RECURSIVE SumOfMagnitudes(_)
SumOfMagnitudes(cols) ==
  IF cols = {} THEN 0
  ELSE LET f == CHOOSE g \in cols : TRUE
       IN Abs(Col(f)) + SumOfMagnitudes(cols \ {f})

\* C21: for each stage with several export columns, the link to export that
\* the builder emits has realValue = the sum of the magnitudes of the stage's
\* columns, negative entries included.
C21_SumOfMagnitudes ==
  ~IsNull(built) =>
    \A e \in CombinedExports :
      LinkCount(e[1], 8) > 0 => TheLink(e[1], 8).realValue = SumOfMagnitudes(e[2])

\* C22: whenever the row contains 'end of life', with value 0 included, the
\* eol -> loss link's realValue is the magnitude of that field and
\* 'end of life to loss' is ignored.
C22_CanonicalPreferred ==
  (~IsNull(built) /\ "end of life" \in DOMAIN row) =>
    /\ LinkCount(9, 7) = 1
    /\ TheLink(9, 7).realValue = Abs(row["end of life"])

\* ============================================================ claims: editor
\* The rectangle of a node, and its rotation flag as a boolean.
RectOf(node) == << node.x0, node.y0, node.x1, node.y1 >>
Flag(node) == node.isRotated = "true"

HasLink(g, key) == \E k \in 1..Len(g.links) : getLinkKey(g.links[k]) = key
LinkIndex(g, key) == CHOOSE k \in 1..Len(g.links) : getLinkKey(g.links[k]) = key

\* The links map of the saved layout (none before a save).
SavedLinks == IF IsNull(savedLayout) THEN EmptyRecord ELSE savedLayout.links

\* The year selector picked another year of the same sheet.
YearChange == selectedYear' # selectedYear /\ data' = data
\* A step on which the layout effect rebuilds the working graph.
RebuildStep ==
  selectedYear' # selectedYear \/ data' # data \/ settings'.flowScale # settings.flowScale

Px15 == 15 * PX
DraggedKey == "concentrate-metal"

\* The source end of the link was dragged to offset 15 on the right edge and
\* the layout saved since, with the table untouched after the save.
SavedRight15 ==
  /\ ~IsNull(savedLayout) /\ ~IsNull(graph)
  /\ DraggedKey \in DOMAIN savedLayout.links
  /\ "sourceSide" \in DOMAIN savedLayout.links[DraggedKey]
  /\ savedLayout.links[DraggedKey].sourceSide = "right"
  /\ savedLayout.links[DraggedKey].sourceOffset = Px15
  /\ linkOffsets = savedLayout.links

\* C1 as stated: after a drag of a link's end to offset 15 on the right edge, a
\* save and a rebuild from another year holding the same link, the end is on
\* side 'right' at x = node.x1, y = node.y0 + 15, whatever the link's width and
\* the node's height.
C1_Offset15Always ==
  [][(SavedRight15 /\ YearChange /\ HasLink(graph', DraggedKey)) =>
       LET k == LinkIndex(graph', DraggedKey)
           node == graph'.nodes[graph'.links[k].source]
       IN routedGraph(graph', linkOffsets')[k].sourceCoords
            = [x |-> node.x1, y |-> node.y0 + Px15, side |-> "right"]]_vars

\* C1 amended: after the same drag, save and rebuild the end is on side 'right'
\* at x = node.x1; it is at y = node.y0 + 15 when half the link's width fits on
\* both sides of that point (lw/2 <= 15 <= h - lw/2); otherwise the link is
\* pushed to the end of the edge: y = node.y0 + lw/2 when 15 < lw/2 or the link
\* is wider than the edge, y = node.y0 + h - lw/2 when 15 > h - lw/2.
C1_Offset15Clamped ==
  [][(SavedRight15 /\ YearChange /\ HasLink(graph', DraggedKey)) =>
       LET k == LinkIndex(graph', DraggedKey)
           node == graph'.nodes[graph'.links[k].source]
           lw == graph'.links[k].width
           h == node.y1 - node.y0
           c == routedGraph(graph', linkOffsets')[k].sourceCoords
       IN /\ c.side = "right"
          /\ c.x = node.x1
          /\ c.y = node.y0 + (IF 2 * Px15 < lw \/ lw > h THEN Half(lw)
                              ELSE IF 2 * Px15 > 2 * h - lw THEN h - Half(lw)
                              ELSE Px15)]_vars

\* The scenario has run: the end was dragged to offset 15 on the right edge in
\* 2020, the layout saved, year 2021 selected, and the end is at offset 15.
C1_Witness ==
  /\ SavedRight15
  /\ data = Sheet1 /\ selectedYear = 2021
  /\ HasLink(graph, DraggedKey)
  /\ savedLayout.nodes["concentrate"].y1 - savedLayout.nodes["concentrate"].y0
       = sankeyLength(20 * KT, 90)
  /\ LET k == LinkIndex(graph, DraggedKey)
         node == graph.nodes["concentrate"]
     IN routedGraph(graph, linkOffsets)[k].sourceCoords
          = [x |-> node.x1, y |-> node.y0 + Px15, side |-> "right"]

\* C2: when the working graph is as it was saved (its rectangles and flags are
\* those of the saved layout) and the graph is rebuilt, every node of the
\* rebuilt graph has the same rectangle and the same rotation flag.
C2_SaveApplyRoundTrip ==
  [][(/\ ~IsNull(graph) /\ ~IsNull(savedLayout)
      /\ \A id \in IdSet :
           /\ RectOf(savedLayout.nodes[id]) = RectOf(graph.nodes[id])
           /\ Flag(savedLayout.nodes[id]) = Flag(graph.nodes[id])
      /\ RebuildStep) =>
       \A id \in IdSet :
         /\ RectOf(graph'.nodes[id]) = RectOf(graph.nodes[id])
         /\ Flag(graph'.nodes[id]) = Flag(graph.nodes[id])]_vars

\* The layout was saved in 2020 and the graph rebuilt for 2021: concentrate has
\* the saved height, which is not the height the generator gives it in 2021.
C2_Witness ==
  /\ ~IsNull(graph) /\ ~IsNull(savedLayout)
  /\ data = Sheet1 /\ selectedYear = 2021
  /\ \A id \in IdSet : RectOf(savedLayout.nodes[id]) = RectOf(graph.nodes[id])
  /\ graph.nodes["concentrate"].y1 - graph.nodes["concentrate"].y0
       = sankeyLength(20 * KT, 90)
  /\ sankeyLength(nodeValue(processYearData(data[2021]).links, 1), settings.flowScale)
       # sankeyLength(20 * KT, 90)

\* The ends of the working graph's links: << link index, incoming >>.
LinkEnds == {e \in (1..20) \X BOOLEAN : ~IsNull(graph) /\ e[1] <= Len(graph.links)}

EndNode(e) == endNodeId(graph.links[e[1]], e[2])
EndSide(e) == endSide(graph, linkOffsets, graph.links[e[1]], e[2])
EndIsAuto(e) == ~hasManualPos(linkOffsets, graph.links[e[1]], e[2])
EndStart(e) == posOnEdge(graph, linkOffsets, e[1], e[2])
EndWidth(e) == linkWidth(graph.links[e[1]])
SameBucket(a, b) == a[2] = b[2] /\ EndNode(a) = EndNode(b) /\ EndSide(a) = EndSide(b)
Disjoint(a, b) ==
  EndStart(a) + EndWidth(a) <= EndStart(b) \/ EndStart(b) + EndWidth(b) <= EndStart(a)

\* Summed widths of the links of the bucket of end e, and its edge's length.
BucketTotal(e) == SumWidths(graph.links, bucket(graph, linkOffsets, EndNode(e), e[2], EndSide(e)))
BucketEdge(e) == edgeLength(graph.nodes[EndNode(e)], EndSide(e))

OnSide(c, node) ==
  CASE c.side = "right" -> c.x = node.x1 /\ node.y0 <= c.y /\ c.y <= node.y1
    [] c.side = "left" -> c.x = node.x0 /\ node.y0 <= c.y /\ c.y <= node.y1
    [] c.side = "bottom" -> c.y = node.y1 /\ node.x0 <= c.x /\ c.x <= node.x1
    [] c.side = "top" -> c.y = node.y0 /\ node.x0 <= c.x /\ c.x <= node.x1

\* C4: every link end with a manual offset resolves to a point on the segment
\* of its node's chosen side (its position along the edge is within
\* [0, edgeLength]), whatever the saved offset, the link's width and the node's
\* size.
C4_EndpointOnEdge ==
  \A e \in LinkEnds :
    ~EndIsAuto(e) =>
      OnSide(getCoords(graph, linkOffsets, e[1], e[2]), graph.nodes[EndNode(e)])

\* C9: after a year change the rebuilt graph's node rectangles and link
\* attachment points are those the new row, the settings and the saved layout
\* alone give: the link-offset table of unsaved edits plays no part.
C9_RebuildDropsUnsaved ==
  [][(YearChange /\ ~IsNull(graph')) =>
       /\ graph'.nodes
            = layoutGraph(processedGraphData(data', selectedYear'), settings', savedLayout').nodes
       /\ routedGraph(graph', linkOffsets') = routedGraph(graph', SavedLinks')]_vars

\* C10 as stated: an upload of a new sheet leaves no saved layout.
C10_UploadClearsLayout ==
  [][data' # data => IsNull(savedLayout')]_vars

\* C10 amended: an upload of a new sheet resets the labels and leaves the saved
\* layout exactly as it was; when there is one, the graph rebuilt for the new
\* sheet has the saved node rectangles, and the saved link offsets stay in use.
C10_UploadKeepsLayout ==
  [][data' # data =>
       /\ savedLayout' = savedLayout
       /\ customLabels' = << >>
       /\ ~IsNull(savedLayout) =>
            /\ \A id \in IdSet : RectOf(graph'.nodes[id]) = RectOf(savedLayout.nodes[id])
            /\ linkOffsets' = linkOffsets]_vars

\* A layout saved under the first sheet (concentrate as high as in 2020) is
\* still there, and applied, after the second sheet was uploaded.
C10_Witness ==
  /\ data = Sheet2
  /\ ~IsNull(savedLayout) /\ ~IsNull(graph)
  /\ savedLayout.nodes["concentrate"].y1 - savedLayout.nodes["concentrate"].y0
       = sankeyLength(20 * KT, 90)
  /\ \A id \in IdSet : RectOf(graph.nodes[id]) = RectOf(savedLayout.nodes[id])

\* C11: once a layout is saved, no step that changes the year, the settings,
\* the working graph, the link-offset table or the labels changes the saved
\* layout: its node rectangles, rotation flags and link entries stay as saved.
C11_SnapshotImmutable ==
  [][(/\ ~IsNull(savedLayout)
      /\ data' = data
      /\ \/ selectedYear' # selectedYear
         \/ settings' # settings
         \/ graph' # graph
         \/ linkOffsets' # linkOffsets
         \/ customLabels' # customLabels) =>
       savedLayout' = savedLayout]_vars

\* A layout was saved before any link was dragged; since then a link end was
\* dragged and a node edited, and the saved layout still has no link entry.
C11_Witness ==
  /\ ~IsNull(savedLayout) /\ ~IsNull(graph)
  /\ savedLayout.links = EmptyRecord
  /\ linkOffsets # EmptyRecord
  /\ edits = MaxEdits
  /\ \E id \in IdSet : RectOf(graph.nodes[id]) # RectOf(savedLayout.nodes[id])

\* C12: a save stores, for every node of the working graph, its current
\* rectangle and rotation flag, and the whole link-offset table; an entry saved
\* earlier for a link that is not in the current graph is in the new saved
\* layout exactly as it was saved.
C12_SaveFullSnapshot ==
  [][(savedLayout' # savedLayout) =>
       /\ DOMAIN savedLayout'.nodes = IdSet
       /\ \A id \in IdSet :
            /\ RectOf(savedLayout'.nodes[id]) = RectOf(graph.nodes[id])
            /\ Flag(savedLayout'.nodes[id]) = Flag(graph.nodes[id])
       /\ savedLayout'.links = linkOffsets
       /\ \A key \in DOMAIN SavedLinks :
            ~HasLink(graph, key) =>
              /\ key \in DOMAIN savedLayout'.links
              /\ savedLayout'.links[key] = savedLayout.links[key]]_vars

\* The node object a link end refers to, and the one at the link's other end.
OwnNode(e) == graph.linkNodes[EndNode(e)]
OtherNode(e) == graph.linkNodes[endNodeId(graph.links[e[1]], ~e[2])]
WiderThanTall(node) == node.x1 - node.x0 > node.y1 - node.y0
Below(a, b) == a.y0 + a.y1 > b.y0 + b.y1
RightOf(a, b) == a.x0 + a.x1 > b.x0 + b.x1
ManualSideField(e) == IF e[2] THEN "targetSide" ELSE "sourceSide"
HasManualSide(e) == ManualSideField(e) \in DOMAIN savedOffsets(linkOffsets, graph.links[e[1]])

\* C13: for each link end the resolved side is the manual side of that end when
\* the link-offset table has one; otherwise, with the node the end refers to
\* wider than tall, 'bottom' when the other node's centre is below its own and
\* 'top' if not; with the node not wider than tall, 'right' when the other
\* node's centre is to the right of its own and 'left' if not.
C13_SideResolution ==
  \A e \in LinkEnds :
    EndSide(e) =
      IF HasManualSide(e)
      THEN savedOffsets(linkOffsets, graph.links[e[1]])[ManualSideField(e)]
      ELSE IF WiderThanTall(OwnNode(e))
           THEN (IF Below(OtherNode(e), OwnNode(e)) THEN "bottom" ELSE "top")
           ELSE (IF RightOf(OtherNode(e), OwnNode(e)) THEN "right" ELSE "left")

\* One end has a manual side that differs from what its node would give, and
\* the four inferred sides all occur at other ends.
C13_Witness ==
  /\ \E e \in LinkEnds :
       /\ HasManualSide(e)
       /\ EndSide(e) = "left"
       /\ ~WiderThanTall(OwnNode(e))
       /\ RightOf(OtherNode(e), OwnNode(e))
  /\ \A side \in {"top", "bottom", "left", "right"} :
       \E e \in LinkEnds : ~HasManualSide(e) /\ EndSide(e) = side

\* The working graph after a routing run: routing writes sourceCoords and
\* targetCoords onto the graph's own link objects.
RoutedInPlace ==
  [graph EXCEPT !.links = [k \in 1..Len(graph.links) |-> graph.links[k] @@ routed[k]]]

C15_RebuildIdempotent ==
  [][(RebuildStep /\ ~IsNull(graph')) =>
       /\ savedLayout' = savedLayout
       /\ layoutEffect(graph', data', selectedYear', settings', savedLayout').nodes
            = graph'.nodes
       /\ ~IsNull(savedLayout') =>
            \A id \in IdSet :
              applySaved(graph'.nodes[id], id, savedLayout'.nodes) = graph'.nodes[id]]_vars

\* A layout with the loss bar rotated was saved, another year was selected and
\* the graph rebuilt from it.
C15_Witness ==
  /\ ~IsNull(savedLayout) /\ ~IsNull(graph)
  /\ savedLayout.nodes["loss"].isRotated = "false"
  /\ savedLayout.nodes["loss"].y1 - savedLayout.nodes["loss"].y0 = 1000 * PX
  /\ selectedYear # MinYear(data)
  /\ graph = layoutEffect(graph, data, selectedYear, settings, savedLayout)
  /\ \A id \in IdSet : graph.nodes[id] = savedLayout.nodes[id]

\* C16: when the layout throws during a rebuild (the step does not install the
\* freshly laid out graph), the working graph stays the one displayed before
\* (none, if there was none), and the link-offset table and saved layout are
\* unchanged.
C16_ThrowKeepsGraph ==
  [][(/\ RebuildStep
      /\ graph' # layoutEffect(graph, data', selectedYear', settings', savedLayout')) =>
       /\ graph' = graph
       /\ linkOffsets' = linkOffsets
       /\ savedLayout' = savedLayout]_vars

\* The layout threw on a year change: the graph on display is still that of
\* the year selected before.
C16_Witness ==
  /\ ~IsNull(graph)
  /\ data = Sheet1 /\ selectedYear = 2021
  /\ graph.links = layoutEffect(graph, data, 2020, settings, savedLayout).links
  /\ graph.links # layoutEffect(graph, data, 2021, settings, savedLayout).links

\* A gesture on the nodes: one more edit, nothing but the graph changed.
NodeGesture ==
  /\ ~IsNull(graph) /\ ~IsNull(graph')
  /\ edits' = edits + 1
  /\ settings' = settings /\ linkOffsets' = linkOffsets /\ customLabels' = customLabels

WidthOf(node) == node.x1 - node.x0
HeightOf(node) == node.y1 - node.y0

\* Node n was moved by a drag: its corner changed, its flag did not.
DragMoved(n) ==
  /\ NodeGesture
  /\ graph'.nodes[n].isRotated = graph.nodes[n].isRotated
  /\ << graph'.nodes[n].x0, graph'.nodes[n].y0 >> # << graph.nodes[n].x0, graph.nodes[n].y0 >>

InCanvas(node) ==
  0 <= node.x0 /\ node.x1 <= width /\ 0 <= node.y0 /\ node.y1 <= height

\* C17 as stated: after a node drag the node's rectangle is fully within the
\* canvas and its width and height are unchanged, whatever the node's size.
C17_DragInsideCanvas ==
  [][\A n \in IdSet :
       DragMoved(n) =>
         /\ InCanvas(graph'.nodes[n])
         /\ WidthOf(graph'.nodes[n]) = WidthOf(graph.nodes[n])
         /\ HeightOf(graph'.nodes[n]) = HeightOf(graph.nodes[n])]_vars

\* C17 amended: after a node drag the node's width and height are unchanged and
\* 0 <= x0, 0 <= y0; x1 <= width when the node is no wider than the canvas and
\* y1 <= height when it is no taller; a node wider (taller) than the canvas is
\* put at x0 = 0 (y0 = 0) and reaches beyond the canvas.
C17_DragInsideWhenFits ==
  [][\A n \in IdSet :
       DragMoved(n) =>
         LET d == graph'.nodes[n]
         IN /\ WidthOf(d) = WidthOf(graph.nodes[n])
            /\ HeightOf(d) = HeightOf(graph.nodes[n])
            /\ 0 <= d.x0 /\ 0 <= d.y0
            /\ IF WidthOf(d) <= width THEN d.x1 <= width ELSE d.x0 = 0
            /\ IF HeightOf(d) <= height THEN d.y1 <= height ELSE d.y0 = 0]_vars

\* The loss bar was dragged far to the bottom left and stopped at the canvas
\* border.
C17_Witness ==
  /\ ~IsNull(graph)
  /\ edits > 0
  /\ graph.nodes["loss"].x0 = 0
  /\ graph.nodes["loss"].y1 = height
  /\ WidthOf(graph.nodes["loss"]) = 1000 * PX

\* Node n was resized: its size changed, its flag did not.
ResizeStep(n) ==
  /\ NodeGesture
  /\ graph'.nodes[n].isRotated = graph.nodes[n].isRotated
  /\ << WidthOf(graph'.nodes[n]), HeightOf(graph'.nodes[n]) >>
       # << WidthOf(graph.nodes[n]), HeightOf(graph.nodes[n]) >>

Clamped(v, lo, hi) == IF v < lo THEN lo ELSE IF v > hi THEN hi ELSE v

AtLeast10(v) == IF v < 10 * PX THEN 10 * PX ELSE v

\* C18: a resize keeps the node's top-left corner (x0, y0) and sets
\* x1 = x0 + max(10, clampedX - x0) and y1 = y0 + max(10, clampedY - y0), where
\* the pointer is clamped to [0, width] x [0, height]; width and height of the
\* node are therefore at least 10.
C18_ResizeKeepsCorner ==
  [][\A n \in IdSet :
       ResizeStep(n) =>
         LET d == graph.nodes[n]
             r == graph'.nodes[n]
         IN /\ r.x0 = d.x0 /\ r.y0 = d.y0
            /\ WidthOf(r) >= 10 * PX /\ HeightOf(r) >= 10 * PX
            /\ \E p \in ResizePointers :
                 /\ r.x1 = d.x0 + AtLeast10(Clamped(d.x0 + p[1], 0, width) - d.x0)
                 /\ r.y1 = d.y0 + AtLeast10(Clamped(d.y0 + p[2], 0, height) - d.y0)]_vars

\* The concentrate node was resized with the pointer 4 px from its corner and
\* has the minimum size.
C18_Witness ==
  /\ ~IsNull(graph)
  /\ edits > 0
  /\ WidthOf(graph.nodes["concentrate"]) = 10 * PX
  /\ HeightOf(graph.nodes["concentrate"]) = 10 * PX

\* Node n was rotated: its flag was toggled.
RotateStep(n) ==
  /\ NodeGesture
  /\ Flag(graph'.nodes[n]) # Flag(graph.nodes[n])

\* The graph g with the rotation flag of every node inverted.
FlagsInverted(g) ==
  LET inv(node) == [node EXCEPT !.isRotated = IF Flag(node) THEN "false" ELSE "true"]
  IN [g EXCEPT !.nodes = [id \in DOMAIN g.nodes |-> inv(g.nodes[id])],
               !.linkNodes = [id \in DOMAIN g.linkNodes |-> inv(g.linkNodes[id])]]

\* C19: a rotate swaps the rectangle's width and height about its centre and
\* toggles the rotation flag; a second rotate restores rectangle and flag (for
\* every node, rotated before or not); and the graph with all rotation flags
\* inverted routes exactly as the graph itself.
C19_RotateSwaps ==
  [][\A n \in IdSet :
       RotateStep(n) =>
         LET d == graph.nodes[n]
             r == graph'.nodes[n]
         IN /\ WidthOf(r) = HeightOf(d) /\ HeightOf(r) = WidthOf(d)
            /\ r.x0 + r.x1 = d.x0 + d.x1
            /\ r.y0 + r.y1 = d.y0 + d.y1
            /\ Flag(r) = ~Flag(d)
            /\ \A m \in IdSet :
                 LET o == graph'.nodes[m]
                     twice == rotatedNode(rotatedNode(o))
                 IN RectOf(twice) = RectOf(o) /\ Flag(twice) = Flag(o)
            /\ RectOf(rotatedNode(r)) = RectOf(d)
            /\ routedGraph(FlagsInverted(graph'), linkOffsets') =
                 routedGraph(graph', linkOffsets')]_vars

\* The loss bar, 1000 x 20 and flagged by the default layout, was rotated once
\* about its centre (600, 770).
C19_Witness ==
  /\ ~IsNull(graph)
  /\ edits > 0
  /\ ~Flag(graph.nodes["loss"])
  /\ WidthOf(graph.nodes["loss"]) = 20 * PX
  /\ HeightOf(graph.nodes["loss"]) = 1000 * PX
  /\ graph.nodes["loss"].x0 = 590 * PX
  /\ graph.nodes["loss"].y0 = 270 * PX

\* A link-endpoint drag: an edit that changed the link-offset table.
LinkDragStep ==
  /\ ~IsNull(graph)
  /\ edits' = edits + 1
  /\ settings' = settings
  /\ linkOffsets' # linkOffsets

\* The keys whose entry differs between the two tables.
ChangedKeys(lo1, lo2) ==
  {key \in DOMAIN lo1 \cup DOMAIN lo2 :
     key \notin DOMAIN lo1 \/ key \notin DOMAIN lo2 \/ lo1[key] # lo2[key]}

EntryOf(lo, key) == IF key \in DOMAIN lo THEN lo[key] ELSE EmptyRecord

\* The length of the edge `side` of a node.
EdgeLength(node, side) ==
  IF side \in {"top", "bottom"} THEN WidthOf(node) ELSE HeightOf(node)

\* Entry `new` is entry `old` with side and offset of one end rewritten for
\* the link l, and the offset lies on the chosen edge of that end's node.
OneEndRewritten(old, new, l, isSource) ==
  LET fOffset == IF isSource THEN "sourceOffset" ELSE "targetOffset"
      fSide == IF isSource THEN "sourceSide" ELSE "targetSide"
      node == graph.linkNodes[IF isSource THEN l.source ELSE l.target]
  IN /\ DOMAIN new = DOMAIN old \cup {fOffset, fSide}
     /\ \A f \in DOMAIN old \ {fOffset, fSide} : new[f] = old[f]
     /\ new[fSide] \in {"left", "right", "top", "bottom"}
     /\ 0 <= new[fOffset]
     /\ new[fOffset] <= EdgeLength(node, new[fSide])

\* C20: a link-endpoint drag changes the link-offset table at exactly one key,
\* the key "{sourceId}-{targetId}" of a link of the graph; there it writes a
\* side and an offset with 0 <= offset <= length of that edge for one end and
\* leaves the other end's fields as they were; every other entry and the
\* graph (all node rectangles) are unchanged.
C20_LinkDragFrame ==
  [][LinkDragStep =>
       /\ graph' = graph
       /\ DOMAIN linkOffsets \subseteq DOMAIN linkOffsets'
       /\ \E k \in 1..Len(graph.links) :
            LET key == graph.links[k].source \o "-" \o graph.links[k].target
            IN /\ ChangedKeys(linkOffsets, linkOffsets') = {key}
               /\ \E isSource \in BOOLEAN :
                    OneEndRewritten(EntryOf(linkOffsets, key), linkOffsets'[key],
                                    graph.links[k], isSource)]_vars

\* Both ends of concentrate -> metal were dragged, one after the other: the
\* entry holds a side and an offset for each end.
C20_Witness ==
  /\ ~IsNull(graph)
  /\ edits = 2
  /\ "concentrate-metal" \in DOMAIN linkOffsets
  /\ DOMAIN linkOffsets["concentrate-metal"] =
       {"sourceSide", "sourceOffset", "targetSide", "targetOffset"}
  /\ linkOffsets["concentrate-metal"].sourceOffset = 0
  /\ linkOffsets["concentrate-metal"].targetOffset > 0

\* Everything but the labels (and the count of gestures) is unchanged.
FlowStateUnchanged ==
  UNCHANGED << data, selectedYear, savedLayout, settings, graph, linkOffsets >>

\* The label list lost exactly its i-th label.
WithoutIndex(labels, i) ==
  [j \in 1..(Len(labels) - 1) |-> IF j < i THEN labels[j] ELSE labels[j + 1]]

\* One label was appended, one was removed, or one kept its id and changed its
\* text or position.
OneLabelChanged ==
  \/ /\ Len(customLabels') = Len(customLabels) + 1
     /\ SubSeq(customLabels', 1, Len(customLabels)) = customLabels
     /\ ~HasLabel(customLabels, customLabels'[Len(customLabels')].id)
  \/ \E i \in 1..Len(customLabels) : customLabels' = WithoutIndex(customLabels, i)
  \/ /\ Len(customLabels') = Len(customLabels)
     /\ \E i \in 1..Len(customLabels) :
          /\ customLabels'[i].id = customLabels[i].id
          /\ \A j \in 1..Len(customLabels) : j # i => customLabels'[j] = customLabels[j]

\* A cancelled edit prompt and a declined delete leave the list as it is.
CancelKeepsLabels(labels) ==
  \A id \in 1..MaxEdits, t \in PromptTexts :
    /\ editedLabels(labels, id, FALSE, t) = labels
    /\ deletedLabels(labels, id, FALSE) = labels

\* C23 as stated: the label list changes only in a step that changes nothing
\* of the flow state (data, year, saved override, settings, working graph,
\* link-offset table), so loading a dataset never changes a label; such a step
\* changes one label; cancelled prompts change nothing.
C23_LabelsIndependent ==
  [][/\ (customLabels' # customLabels) => (FlowStateUnchanged /\ OneLabelChanged)
     /\ CancelKeepsLabels(customLabels')]_vars

\* C23 amended: the label list changes only (a) by one label action, which
\* appends, removes or rewrites one label and changes nothing of the flow
\* state, or (b) by loading a dataset, which empties the list; switching year,
\* saving and node and link edits never change it, and cancelled prompts
\* change nothing.
C23_LabelsClearedByLoad ==
  [][/\ (customLabels' # customLabels) =>
          \/ /\ edits' = edits + 1
             /\ FlowStateUnchanged
             /\ OneLabelChanged
          \/ /\ edits' = edits
             /\ data' \in Sheets
             /\ selectedYear' = MinYear(data')
             /\ customLabels' = << >>
             /\ UNCHANGED << savedLayout, settings, linkOffsets >>
     /\ CancelKeepsLabels(customLabels')]_vars

\* With a graph on screen, a label was added and its text edited.
C23_Witness ==
  /\ ~IsNull(graph)
  /\ Len(customLabels) = 1
  /\ customLabels[1].text = "Edited"
  /\ edits = 2

\* The cross-axis coordinate of the centre of the node at the other end of
\* link k, seen from a bucket on the given side: x for a top or bottom edge, y
\* for a left or right edge.
CrossKey(k, incoming, side) ==
  LET c == getCenter(graph.linkNodes[endNodeId(graph.links[k], ~incoming)])
  IN IF side \in {"top", "bottom"} THEN c.x ELSE c.y

\* The links of the bucket of end e that are laid before it: smaller key
\* first, equal keys in link order.
LaidBefore(e) ==
  LET side == EndSide(e)
      key == CrossKey(e[1], e[2], side)
  IN {k \in bucket(graph, linkOffsets, EndNode(e), e[2], side) :
        LET kk == CrossKey(k, e[2], side)
        IN kk < key \/ (kk = key /\ k < e[1])}

\* Where the placement cursor stands when it reaches end e: it starts at
\* max(0, (edgeLength - sum of widths) / 2) and has passed the links laid
\* before e.
Cursor(e) ==
  LET edge == BucketEdge(e)
      total == BucketTotal(e)
      start == IF edge > total THEN (edge - total) \div 2 ELSE 0
  IN start + SumWidths(graph.links, LaidBefore(e))

AutoOnly(S, incoming) ==
  {k \in S : ~hasManualPos(linkOffsets, graph.links[k], incoming)}

\* Where end e would start if the manually placed links of its bucket were not
\* there: the cursor of the bucket's auto-positioned links alone, clamped.
StartWithoutManual(e) ==
  LET edge == BucketEdge(e)
      B == AutoOnly(bucket(graph, linkOffsets, EndNode(e), e[2], EndSide(e)), e[2])
      total == SumWidths(graph.links, B)
      start == IF edge > total THEN (edge - total) \div 2 ELSE 0
      cur == start + SumWidths(graph.links, AutoOnly(LaidBefore(e), e[2]))
  IN clampPos(cur, edge, EndWidth(e))

\* Offsets a manual end may be given instead of the one it has.
OtherOffsets == {0, 15 * PX}

\* The link-offset table with the offset of end e set to v.
WithOffsetValue(e, v) ==
  LET key == getLinkKey(graph.links[e[1]])
      f == IF e[2] THEN "targetOffset" ELSE "sourceOffset"
  IN [linkOffsets EXCEPT ![key] = [@ EXCEPT ![f] = v]]

\* C25: the auto-positioned links of a bucket are where they would be if the
\* bucket's manually placed links were not there, and giving a manually placed
\* end another offset moves no other link end.
C25_ManualLinksApart ==
  ~IsNull(graph) =>
    \A e \in LinkEnds :
      IF EndIsAuto(e)
      THEN EndStart(e) = StartWithoutManual(e)
      ELSE \A v \in OtherOffsets :
             LET moved == routedGraph(graph, WithOffsetValue(e, v))
             IN \A k \in 1..Len(graph.links) :
                  /\ (k # e[1] \/ e[2]) => moved[k].sourceCoords = routed[k].sourceCoords
                  /\ (k # e[1] \/ ~e[2]) => moved[k].targetCoords = routed[k].targetCoords

\* What the generic layout computed for the node in the rebuild of this step.
GenericNode(id) ==
  sankeyGenerator(processedGraphData(data', selectedYear'), settings').nodes[id]

\* The node is at its fixed reference coordinate: the export bar at the top and
\* the loss bar at the bottom, flagged as rotated; the process chain at
\* x = 50 / 250 / 450 / 650 / 900 and eol at x = 1050, with the width and
\* height of the generic layout.
AtReference(node, id, generic) ==
  CASE id = "export" ->
         /\ RectOf(node) = << width \div 2, 20 * PX, width - 100 * PX, 40 * PX >>
         /\ Flag(node)
    [] id = "loss" ->
         /\ RectOf(node) = << 100 * PX, height - 40 * PX, width - 100 * PX, height - 20 * PX >>
         /\ Flag(node)
    [] OTHER ->
         /\ node.x0 = (CASE id = "ore" -> 50 * PX
                         [] id = "concentrate" -> 250 * PX
                         [] id = "metal" -> 450 * PX
                         [] id \in {"magnet", "other_semi"} -> 650 * PX
                         [] id \in {"wind_turbine", "other_final"} -> 900 * PX
                         [] id = "eol" -> 1050 * PX)
         /\ WidthOf(node) = WidthOf(generic)
         /\ HeightOf(node) = HeightOf(generic)

C27_LinksSeeCurrentNodes ==
  \A e \in LinkEnds :
    /\ RectOf(OwnNode(e)) = RectOf(graph.nodes[EndNode(e)])
    /\ RectOf(OtherNode(e)) = RectOf(graph.nodes[endNodeId(graph.links[e[1]], ~e[2])])

\* C28: in every reachable state every node rectangle of the working graph
\* lies within the canvas [0, width] x [0, height], with x0 <= x1 and y0 <= y1.
C28_NodesInCanvas ==
  ~IsNull(graph) =>
    \A id \in IdSet :
      /\ InCanvas(graph.nodes[id])
      /\ graph.nodes[id].x0 <= graph.nodes[id].x1
      /\ graph.nodes[id].y0 <= graph.nodes[id].y1

\* The end (k, incoming) of a link is the one a link-endpoint drag wrote.
EndWritten(k, incoming) ==
  LET key == getLinkKey(graph.links[k])
      f == IF incoming THEN "targetSide" ELSE "sourceSide"
      o == IF incoming THEN "targetOffset" ELSE "sourceOffset"
      old == EntryOf(linkOffsets, key)
      new == EntryOf(linkOffsets', key)
  IN /\ f \in DOMAIN new
     /\ (f \notin DOMAIN old \/ old[f] # new[f] \/ old[o] # new[o])

\* C29: the side a link-endpoint drag picks lies on the axis the routing
\* heuristic uses for the node: top or bottom when the node is wider than
\* tall, left or right otherwise, a square node included.
C29_SameOrientationRule ==
  [][LinkDragStep =>
       \A k \in 1..Len(graph.links), incoming \in BOOLEAN :
         EndWritten(k, incoming) =>
           LET node == graph.linkNodes[endNodeId(graph.links[k], incoming)]
               side == linkOffsets'[getLinkKey(graph.links[k])][IF incoming THEN "targetSide" ELSE "sourceSide"]
           IN (side \in {"top", "bottom"}) = WiderThanTall(node)]_vars

====
